---- MODULE Spec2Model ----
(***************************************************************************)
(* Model of the Coswara data merger: run_merger.py (main) and              *)
(* src/data_merger.py (CoswaraDataMerger).                                 *)
(*                                                                         *)
(* A table (pandas DataFrame) is a record [isNone, columns, rows]: columns *)
(* is the set of column names and rows the sequence of rows, each row a    *)
(* function from the column names it has a value for to that value.  A     *)
(* cell pandas would fill with NaN because the source dict had no such key *)
(* is a key missing from the row.  Python's None is the record NoneValue.  *)
(***************************************************************************)
EXTENDS Integers, Sequences, FiniteSets, TLC

(***************************************************************************)
(* Bounds of the inputs.                                                   *)
(***************************************************************************)
MaxMetaRows == 2
MaxDates == 2

\* a missing cell of a text column / of a numeric column
NaN == "NaN"
NaNTarget == -1

NoneValue == [isNone |-> TRUE]
DataFrame(cols, rws) == [isNone |-> FALSE, columns |-> cols, rows |-> rws]

(***************************************************************************)
(* The fixed tables of the program.                                        *)
(***************************************************************************)
expected_audio_types ==
    << "breathing-deep.wav", "breathing-shallow.wav",
       "cough-heavy.wav", "cough-shallow.wav",
       "counting-normal.wav", "counting-fast.wav",
       "vowel-a.wav", "vowel-e.wav", "vowel-o.wav" >>

ExpectedFiles == {expected_audio_types[i] : i \in 1..Len(expected_audio_types)}

\* audio_type.replace('.wav', '').replace('-', '_')
NormalizedName(audio_type) ==
    CASE audio_type = "breathing-deep.wav"    -> "breathing_deep"
      [] audio_type = "breathing-shallow.wav" -> "breathing_shallow"
      [] audio_type = "cough-heavy.wav"       -> "cough_heavy"
      [] audio_type = "cough-shallow.wav"     -> "cough_shallow"
      [] audio_type = "counting-normal.wav"   -> "counting_normal"
      [] audio_type = "counting-fast.wav"     -> "counting_fast"
      [] audio_type = "vowel-a.wav"           -> "vowel_a"
      [] audio_type = "vowel-e.wav"           -> "vowel_e"
      [] audio_type = "vowel-o.wav"           -> "vowel_o"

\* f'has_{audio_type.replace(".wav", "").replace("-", "_")}'
HasName(audio_type) ==
    CASE audio_type = "breathing-deep.wav"    -> "has_breathing_deep"
      [] audio_type = "breathing-shallow.wav" -> "has_breathing_shallow"
      [] audio_type = "cough-heavy.wav"       -> "has_cough_heavy"
      [] audio_type = "cough-shallow.wav"     -> "has_cough_shallow"
      [] audio_type = "counting-normal.wav"   -> "has_counting_normal"
      [] audio_type = "counting-fast.wav"     -> "has_counting_fast"
      [] audio_type = "vowel-a.wav"           -> "has_vowel_a"
      [] audio_type = "vowel-e.wav"           -> "has_vowel_e"
      [] audio_type = "vowel-o.wav"           -> "has_vowel_o"

\* mutant: the candidates tried in the opposite order
patient_id_columns_Reversed == << "patient_id", "d", "id" >>

patient_id_columns == << "id", "d", "patient_id" >>

covid_mapping ==
    [s \in {"positive_mild", "positive_moderate", "positive_asymp",
            "healthy", "no_resp_illness_exposed", "recovered_full"} |->
        IF s \in {"positive_mild", "positive_moderate", "positive_asymp"}
        THEN 1 ELSE 0]

\* col.startswith('has_'), over the column names that occur in the model
StartsWithHas(col) ==
    col \in {HasName(t) : t \in ExpectedFiles} \cup {"has_fever", "has_all_audio"}

(***************************************************************************)
(* Inputs: the metadata file and the audio directory.                      *)
(***************************************************************************)
\* rows of a metadata file, with a value for every column a file may have
RowPool ==
    << [id |-> "A", d |-> "B", patient_id |-> "B", covid_status |-> "positive_mild", has_fever |-> 1],
       [id |-> "B", d |-> "A", patient_id |-> "A", covid_status |-> "healthy", has_fever |-> 0],
       [id |-> "A", d |-> "A", patient_id |-> "B", covid_status |-> "under_validation", has_fever |-> 1],
       [id |-> "B", d |-> "B", patient_id |-> "A", covid_status |-> "positive_moderate", has_fever |-> 0],
       [id |-> "A", d |-> "B", patient_id |-> "A", covid_status |-> NaN, has_fever |-> 0],
       [id |-> "B", d |-> "A", patient_id |-> "B", covid_status |-> "recovered_full", has_fever |-> 1],
       [id |-> "A", d |-> "A", patient_id |-> "A", covid_status |-> "positive_asymp", has_fever |-> 0],
       [id |-> "B", d |-> "B", patient_id |-> "B", covid_status |-> "no_resp_illness_exposed", has_fever |-> 1] >>

\* the header rows a metadata file may have
MetaColumnSets ==
    { {"id", "d", "patient_id", "covid_status"},
      {"id", "d", "covid_status"},
      {"id", "patient_id", "covid_status"},
      {"id", "covid_status"},
      {"d", "patient_id", "covid_status"},
      {"d", "covid_status"},
      {"patient_id", "covid_status"},
      {"covid_status"},
      {"id"},
      {"has_fever"},
      {"id", "covid_status", "has_fever"},
      {"id", "has_fever"} }

\* the header rows tried with every row of RowPool
StatusColumnSets ==
    { {"id", "covid_status"}, {"id", "covid_status", "has_fever"} }

\* the first rows of RowPool, tried with every header row
FewRows == {i \in 1..Len(RowPool) : i <= 3}

\* at most max entries picked among the entries `among' of a pool, listed
\* in the order of the pool
Choices(among, max) ==
    UNION { { s \in [1..n -> among] :
                \A i \in 1..(n - 1) : s[i] <= s[i + 1] } : n \in 0..max }

MetadataFile(cs, s) ==
    DataFrame(cs, [i \in 1..Len(s) |-> [c \in cs |-> RowPool[s[i]][c]]])

MetadataFiles ==
    { MetadataFile(cs, s) : cs \in MetaColumnSets, s \in Choices(FewRows, MaxMetaRows) }
    \cup
    { MetadataFile(cs, s) :
        cs \in StatusColumnSets, s \in Choices(1..Len(RowPool), MaxMetaRows) }

\* what a date folder may hold: no patient folder, or one [name, files]
DateFolderPool ==
    << <<>>,
       << [name |-> "A", files |-> {}] >>,
       << [name |-> "A", files |-> {"cough-heavy.wav"}] >>,
       << [name |-> "A", files |-> ExpectedFiles] >>,
       << [name |-> "B", files |-> {}] >>,
       << [name |-> "B", files |-> {"cough-heavy.wav"}] >>,
       << [name |-> "B", files |-> ExpectedFiles] >> >>

\* the audio directory: its date folders in listing order, date folder i
\* being named i; the folders are listed in the order of DateFolderPool
AudioTrees ==
    { [i \in 1..Len(s) |-> DateFolderPool[s[i]]] :
        s \in Choices(1..Len(DateFolderPool), MaxDates) }

(***************************************************************************)
(* find_audio_files: the scan of one patient folder, of a date folder, of  *)
(* the audio directory.                                                    *)
(***************************************************************************)
\* os.path.exists(os.path.join(patient_path, audio_type))
FileExists(folder, audio_type) == audio_type \in folder.files

\* the dict audio_files built by the loop over expected_audio_types
AudioFilesOf(date_folder, folder) ==
    LET found == {t \in ExpectedFiles : FileExists(folder, t)}
        keys == {HasName(t) : t \in ExpectedFiles} \cup {NormalizedName(t) : t \in found}
    IN  [k \in keys |->
            IF \E t \in ExpectedFiles : HasName(t) = k
            THEN IF (CHOOSE t \in ExpectedFiles : HasName(t) = k) \in found THEN 1 ELSE 0
            ELSE << date_folder, folder.name,
                    CHOOSE t \in ExpectedFiles : NormalizedName(t) = k >>]

\* mutant: every patient folder is added to the collection
AnyAudio_Always(audio_files) == TRUE

\* any([audio_files.get(f'has_...', 0) for audio_type in expected_audio_types])
AnyAudio(audio_files) ==
    \E t \in ExpectedFiles :
        /\ HasName(t) \in DOMAIN audio_files
        /\ audio_files[HasName(t)] # 0

\* audio_record = {'patient_id': ..., 'date_folder': ..., **audio_files}
AudioRecord(date_folder, folder) ==
    LET audio_files == AudioFilesOf(date_folder, folder)
    IN  [k \in {"patient_id", "date_folder"} \cup DOMAIN audio_files |->
            IF k = "patient_id" THEN folder.name
            ELSE IF k = "date_folder" THEN date_folder
            ELSE audio_files[k]]

RECURSIVE ScanPatientFolders(_, _)
ScanPatientFolders(date_folder, folders) ==
    IF folders = <<>> THEN <<>>
    ELSE (IF AnyAudio(AudioFilesOf(date_folder, Head(folders)))
          THEN << AudioRecord(date_folder, Head(folders)) >>
          ELSE <<>>)
         \o ScanPatientFolders(date_folder, Tail(folders))

RECURSIVE ScanDateFolders(_, _)
ScanDateFolders(t, i) ==
    IF i > Len(t) THEN <<>>
    ELSE ScanPatientFolders(i, t[i]) \o ScanDateFolders(t, i + 1)

\* pd.DataFrame(list of dicts): the columns are the keys that occur
FrameOfRecords(records) ==
    DataFrame(UNION {DOMAIN records[i] : i \in 1..Len(records)}, records)

(***************************************************************************)
(* merge_datasets: the choice of the identifier column, and pd.merge.      *)
(***************************************************************************)
RECURSIVE FirstPresent(_, _)
FirstPresent(candidates, columns) ==
    IF candidates = <<>> THEN "None"
    ELSE IF Head(candidates) \in columns THEN Head(candidates)
    ELSE FirstPresent(Tail(candidates), columns)

\* the suffixes pd.merge gives a column name both tables have
SuffixX(c) == CASE c = "patient_id" -> "patient_id_x"
SuffixY(c) == CASE c = "patient_id" -> "patient_id_y"

\* mutant: a merge that pairs every row with every row
KeysMatch_Always(l, r, left_on, right_on) == TRUE

\* the join condition of pd.merge(left_on, right_on)
KeysMatch(l, r, left_on, right_on) == l[left_on] = r[right_on]

\* pd.merge(left, right, left_on, right_on, how='inner')
InnerMerge(left, right, left_on, right_on) ==
    LET common == (left.columns \cap right.columns)
                    \ (IF left_on = right_on THEN {left_on} ELSE {})
        columns == (left.columns \ common) \cup (right.columns \ common)
                     \cup {SuffixX(c) : c \in common} \cup {SuffixY(c) : c \in common}
        row(l, r) ==
            LET fromLeft == DOMAIN l \ common
                fromRight == (DOMAIN r \ common) \ fromLeft
                xs == {SuffixX(c) : c \in common \cap DOMAIN l}
                ys == {SuffixY(c) : c \in common \cap DOMAIN r}
            IN  [k \in fromLeft \cup fromRight \cup xs \cup ys |->
                    IF k \in fromLeft THEN l[k]
                    ELSE IF k \in fromRight THEN r[k]
                    ELSE IF k \in xs THEN l[CHOOSE c \in common : SuffixX(c) = k]
                    ELSE r[CHOOSE c \in common : SuffixY(c) = k]]
        RECURSIVE matches(_, _)
        matches(l, j) ==
            IF j > Len(right.rows) THEN <<>>
            ELSE (IF KeysMatch(l, right.rows[j], left_on, right_on)
                  THEN << row(l, right.rows[j]) >> ELSE <<>>)
                 \o matches(l, j + 1)
        RECURSIVE join(_)
        join(i) ==
            IF i > Len(left.rows) THEN <<>>
            ELSE matches(left.rows[i], 1) \o join(i + 1)
    IN  DataFrame(columns, join(1))

(***************************************************************************)
(* create_final_dataset: the target, the filter, the derived columns.      *)
(***************************************************************************)
\* df[column] = values, a value per row
WithColumn(df, column, values) ==
    DataFrame(df.columns \cup {column},
              [i \in 1..Len(df.rows) |->
                 [k \in DOMAIN df.rows[i] \cup {column} |->
                    IF k = column THEN values[i] ELSE df.rows[i][k]]])

\* Series.map(covid_mapping): a value that is no key of the dict maps to NaN
MapStatus(status) ==
    IF status \in DOMAIN covid_mapping THEN covid_mapping[status] ELSE NaNTarget

\* merged_df['covid_status'].map(covid_mapping)
MappedStatus(df) == [i \in 1..Len(df.rows) |-> MapStatus(df.rows[i]["covid_status"])]

\* a scalar assigned to a column
Broadcast(df, value) == [i \in 1..Len(df.rows) |-> value]

\* mutant: the filter on the target is left out
KeepNotNa_KeepAll(df) == df

\* merged_df[merged_df['target'].notna()]
KeepNotNa(df) ==
    DataFrame(df.columns, SelectSeq(df.rows, LAMBDA r : r["target"] # NaNTarget))

\* mutant: without a status column the target is missing, and filtered
WithTarget_DefaultMissing(df) ==
    IF "covid_status" \in df.columns
    THEN KeepNotNa(WithColumn(df, "target", MappedStatus(df)))
    ELSE KeepNotNa(WithColumn(df, "target", Broadcast(df, NaNTarget)))

\* the 'covid_status' branch and its else
WithTarget(df) ==
    IF "covid_status" \in df.columns
    THEN KeepNotNa(WithColumn(df, "target", MappedStatus(df)))
    ELSE WithColumn(df, "target", Broadcast(df, 0))

\* [col for col in merged_df.columns if col.startswith('has_')]
audio_has_columns(df) == {col \in df.columns : StartsWithHas(col)}

RECURSIVE SumOver(_, _)
SumOver(r, cols) ==
    IF cols = {} THEN 0
    ELSE LET c == CHOOSE x \in cols : TRUE
         IN  r[c] + SumOver(r, cols \ {c})

\* has_all_audio and num_audio_types
WithDerived(df) ==
    LET cols == audio_has_columns(df)
        all == [i \in 1..Len(df.rows) |-> \A c \in cols : df.rows[i][c] # 0]
        sum == [i \in 1..Len(df.rows) |-> SumOver(df.rows[i], cols)]
    IN  IF cols # {}
        THEN WithColumn(WithColumn(df, "has_all_audio", all), "num_audio_types", sum)
        ELSE df

\* merged_df.empty
IsEmpty(df) == df.columns = {} \/ Len(df.rows) = 0

\* mutant: the table is written before the test for an empty join
CreateFinal_WriteFirst(merged, file) ==
    IF merged = NoneValue \/ IsEmpty(merged)
    THEN [result |-> NoneValue, file |-> merged,
          printed |-> {"Error: No data to process"}]
    ELSE LET final == WithDerived(WithTarget(merged))
         IN  [result |-> final, file |-> final,
              printed |-> IF "covid_status" \in merged.columns THEN {}
                          ELSE {"Warning: 'covid_status' column not found."}]

\* the body of create_final_dataset after merge_datasets has returned
\* merged: the value returned, and the file at output_path
CreateFinal(merged, file) ==
    IF merged = NoneValue \/ IsEmpty(merged)
    THEN [result |-> NoneValue, file |-> file,
          printed |-> {"Error: No data to process"}]
    ELSE LET final == WithDerived(WithTarget(merged))
         IN  [result |-> final, file |-> final,
              printed |-> IF "covid_status" \in merged.columns THEN {}
                          ELSE {"Warning: 'covid_status' column not found."}]

\* mutant: the message is printed but main does not return
CheckExists_NoReturn(exists, message, next) ==
    [pc |-> next, printed |-> IF ~exists THEN {message} ELSE {}]

(***************************************************************************)
(* main: one existence check.  `if not os.path.exists(path): print; return`*)
(***************************************************************************)
CheckExists(exists, message, next) ==
    IF ~exists
    THEN [pc |-> "halted", printed |-> {message}]
    ELSE [pc |-> next, printed |-> {}]

VARIABLES
    pc,              \* position of main / of the pipeline
    metadataExists,  \* os.path.exists(METADATA_CSV)
    audioExists,     \* os.path.exists(AUDIO_BASE_PATH)
    tree,            \* the audio directory as listed by the scan
    metadata_df,     \* self.metadata_df
    audio_paths_df,  \* self.audio_paths_df
    left_column,     \* the identifier column merge_datasets chose
    merged_df,       \* the value merge_datasets returned
    final_dataset,   \* the value create_final_dataset returned
    outputFile,      \* the file at OUTPUT_PATH
    printed,         \* the messages printed
    raised           \* the exception that ended the run, or "none"

vars == << pc, metadataExists, audioExists, tree, metadata_df, audio_paths_df,
           left_column, merged_df, final_dataset, outputFile, printed, raised >>

Init ==
    /\ pc = "check_metadata"
    /\ metadataExists \in BOOLEAN
    /\ audioExists \in BOOLEAN
    /\ tree = <<>>
    /\ metadata_df = NoneValue
    /\ audio_paths_df = NoneValue
    /\ left_column = "None"
    /\ merged_df = NoneValue
    /\ final_dataset = NoneValue
    /\ outputFile = NoneValue
    /\ printed = {}
    /\ raised = "none"

(***************************************************************************)
(* main: the two existence checks.                                         *)
(***************************************************************************)
main_check_metadata ==
    LET check == CheckExists(metadataExists, "Error: combined_data.csv not found!",
                             "check_audio")
    IN  /\ pc = "check_metadata"
        /\ printed' = printed \cup check.printed
        /\ pc' = check.pc
        /\ UNCHANGED << metadataExists, audioExists, tree, metadata_df, audio_paths_df,
                        left_column, merged_df, final_dataset, outputFile, raised >>

main_check_audio ==
    LET check == CheckExists(audioExists, "Error: Extracted_data not found!",
                             "load_metadata")
    IN  /\ pc = "check_audio"
        /\ printed' = printed \cup check.printed
        /\ pc' = check.pc
        /\ UNCHANGED << metadataExists, audioExists, tree, metadata_df, audio_paths_df,
                        left_column, merged_df, final_dataset, outputFile, raised >>

(***************************************************************************)
(* load_metadata, called by merge_datasets while metadata_df is None.      *)
(***************************************************************************)
load_metadata ==
    /\ pc = "load_metadata"
    /\ metadata_df = NoneValue
    /\ \E file \in MetadataFiles : metadata_df' = file
    /\ pc' = "find_audio_files"
    /\ UNCHANGED << metadataExists, audioExists, tree, audio_paths_df,
                    left_column, merged_df, final_dataset, outputFile, printed, raised >>

(***************************************************************************)
(* find_audio_files, called by merge_datasets while audio_paths_df is      *)
(* None.  The last print reads the 'patient_id' column, which a table made *)
(* from an empty list does not have.                                       *)
(***************************************************************************)
find_audio_files ==
    /\ pc = "find_audio_files"
    /\ audio_paths_df = NoneValue
    /\ \E t \in AudioTrees :
         LET df == FrameOfRecords(ScanDateFolders(t, 1))
         IN  /\ tree' = t
             /\ audio_paths_df' = df
             /\ IF "patient_id" \in df.columns
                THEN /\ raised' = raised
                     /\ pc' = "merge_datasets"
                ELSE /\ raised' = "KeyError"
                     /\ pc' = "crashed"
    /\ UNCHANGED << metadataExists, audioExists, metadata_df,
                    left_column, merged_df, final_dataset, outputFile, printed >>

(***************************************************************************)
(* merge_datasets, after both tables are loaded.                           *)
(***************************************************************************)
merge_datasets ==
    /\ pc = "merge_datasets"
    /\ LET col == FirstPresent(patient_id_columns, metadata_df.columns)
       IN  /\ left_column' = col
           /\ IF col = "None"
              THEN /\ printed' = printed \cup {"Error: Could not find patient ID column in metadata."}
                   /\ merged_df' = NoneValue
              ELSE /\ printed' = printed
                   /\ merged_df' = InnerMerge(metadata_df, audio_paths_df, col, "patient_id")
    /\ pc' = "create_final_dataset"
    /\ UNCHANGED << metadataExists, audioExists, tree, metadata_df, audio_paths_df,
                    final_dataset, outputFile, raised >>

(***************************************************************************)
(* create_final_dataset, after merge_datasets has returned; main passes    *)
(* OUTPUT_PATH, so the table is written.                                   *)
(***************************************************************************)
create_final_dataset ==
    LET out == CreateFinal(merged_df, outputFile)
    IN  /\ pc = "create_final_dataset"
        /\ printed' = printed \cup out.printed
        /\ final_dataset' = out.result
        /\ outputFile' = out.file
        /\ pc' = "report"
        /\ UNCHANGED << metadataExists, audioExists, tree, metadata_df, audio_paths_df,
                        left_column, merged_df, raised >>

(***************************************************************************)
(* main: the summary after create_final_dataset has returned.              *)
(***************************************************************************)
main_report ==
    /\ pc = "report"
    /\ printed' = printed \cup
           (IF final_dataset # NoneValue THEN {"=== Process Complete ==="}
            ELSE {"=== Process Failed ==="})
    /\ pc' = "done"
    /\ UNCHANGED << metadataExists, audioExists, tree, metadata_df, audio_paths_df,
                    left_column, merged_df, final_dataset, outputFile, raised >>

Next ==
    \/ main_check_metadata
    \/ main_check_audio
    \/ load_metadata
    \/ find_audio_files
    \/ merge_datasets
    \/ create_final_dataset
    \/ main_report

Spec == Init /\ [][Next]_vars
(***************************************************************************)
(* Properties.                                                             *)
(***************************************************************************)
Returned == pc \in {"report", "done"}
HasTable == Returned /\ final_dataset # NoneValue
MetaRows == metadata_df.rows
InvRows == audio_paths_df.rows
KnownStatuses ==
    {"positive_mild", "positive_moderate", "positive_asymp",
     "healthy", "no_resp_illness_exposed", "recovered_full"}
PositiveStatuses == {"positive_mild", "positive_moderate", "positive_asymp"}
NineFlags ==
    {"has_breathing_deep", "has_breathing_shallow", "has_cough_heavy",
     "has_cough_shallow", "has_counting_normal", "has_counting_fast",
     "has_vowel_a", "has_vowel_e", "has_vowel_o"}
Min(a, b) == IF a <= b THEN a ELSE b

\* the pairs (metadata row, inventory record) with equal identifiers
JoinPairs ==
    {p \in (1..Len(MetaRows)) \X (1..Len(InvRows)) :
        MetaRows[p[1]][left_column] = InvRows[p[2]]["patient_id"]}
\* those whose status is one of the six categories
KeptPairs == {p \in JoinPairs : MetaRows[p[1]]["covid_status"] \in KnownStatuses}
Before(q, p) == q[1] < p[1] \/ (q[1] = p[1] /\ q[2] < p[2])
\* the inventory's identifier column in a joined row
PidColumn(r) == IF "patient_id_y" \in DOMAIN r THEN "patient_id_y" ELSE "patient_id"
\* row r carries metadata row i and inventory record j
RowFrom(r, i, j) ==
    /\ \A c \in metadata_df.columns :
          (c = "patient_id" /\ left_column # "patient_id") \/ r[c] = MetaRows[i][c]
    /\ r[PidColumn(r)] = InvRows[j]["patient_id"]
    /\ r["date_folder"] = InvRows[j]["date_folder"]
    /\ \A f \in NineFlags : r[f] = InvRows[j][f]
\* the patient folders of the audio directory, and those with an expected file
Folders == UNION { {<< i, j >> : j \in 1..Len(tree[i])} : i \in 1..Len(tree) }
FolderAt(f) == tree[f[1]][f[2]]
Qualifying == {f \in Folders : FolderAt(f).files \cap ExpectedFiles # {}}

\* C1: the final table has at most min(metadata rows, inventory records) rows,
\* also when a folder name or an identifier occurs several times
C1_RowCountAtMostMin ==
    HasTable =>
        Len(final_dataset.rows) <= Min(Len(MetaRows), Len(InvRows))

\* C2: in every final row num_audio_types counts the nine presence flags equal
\* to 1 and has_all_audio says all nine are 1, whatever other columns exist
C2_CompletenessFromNineFlags ==
    HasTable =>
        \A i \in 1..Len(final_dataset.rows) :
            LET r == final_dataset.rows[i]
            IN  /\ r["num_audio_types"] = Cardinality({f \in NineFlags : r[f] = 1})
                /\ r["has_all_audio"] = (\A f \in NineFlags : r[f] = 1)

\* C3: with a status column, every row of the final table and of the output
\* file has a target in {0,1} that is the mapping of its status, one of the
\* six categories
C3_TargetBinaryKnownStatus ==
    \A table \in {final_dataset, outputFile} :
        (table # NoneValue /\ "covid_status" \in metadata_df.columns) =>
            \A i \in 1..Len(table.rows) :
                LET r == table.rows[i]
                IN  /\ r["target"] \in {0, 1}
                    /\ r["covid_status"] \in KnownStatuses
                    /\ r["target"] = 1 <=> r["covid_status"] \in PositiveStatuses
C3_Witness ==
    /\ HasTable
    /\ Len(final_dataset.rows) >= 1
    /\ outputFile = final_dataset
    /\ "covid_status" \in merged_df.columns
    /\ \E i \in 1..Len(merged_df.rows) :
          merged_df.rows[i]["covid_status"] \in {NaN, "under_validation"}

\* C4: with a status column, the final table is exactly the inner join on
\* equal identifiers, less the joined rows whose status is unmapped, in order
C4_FinalIsFilteredInnerJoin ==
    (HasTable /\ "covid_status" \in metadata_df.columns) =>
        /\ Len(merged_df.rows) = Cardinality(JoinPairs)
        /\ Len(final_dataset.rows)
              = Cardinality(JoinPairs) - Cardinality(JoinPairs \ KeptPairs)
        /\ \A p \in KeptPairs :
              RowFrom(final_dataset.rows[1 + Cardinality({q \in KeptPairs : Before(q, p)})],
                      p[1], p[2])
C4_Witness ==
    /\ HasTable
    /\ "covid_status" \in metadata_df.columns
    /\ Len(final_dataset.rows) >= 1
    /\ JoinPairs \ KeptPairs # {}
    /\ \E j \in 1..Len(InvRows) : \A p \in JoinPairs : p[2] # j

\* C5: the output file exists only after create_final_dataset has returned a
\* table; when it returns no result the file is not written
C5_NoOutputWithoutResult ==
    /\ outputFile # NoneValue => HasTable /\ outputFile = final_dataset
    /\ (Returned /\ final_dataset = NoneValue) => outputFile = NoneValue
C5_Witness ==
    /\ Returned
    /\ final_dataset = NoneValue
    /\ merged_df # NoneValue
    /\ "Error: No data to process" \in printed

\* C6: the join column is the first of id, d, patient_id the metadata has;
\* with none of them an error is printed and no join is made
C6_ColumnPrecedence ==
    pc \in {"create_final_dataset", "report", "done"} =>
        LET cols == metadata_df.columns
            expected == IF "id" \in cols THEN "id"
                        ELSE IF "d" \in cols THEN "d"
                        ELSE IF "patient_id" \in cols THEN "patient_id"
                        ELSE "None"
            error == "Error: Could not find patient ID column in metadata."
        IN  /\ left_column = expected
            /\ expected = "None" => merged_df = NoneValue /\ error \in printed
            /\ expected # "None" =>
                  /\ merged_df # NoneValue
                  /\ error \notin printed
                  /\ Len(merged_df.rows) = Cardinality(JoinPairs)
C6_Witness ==
    /\ pc = "create_final_dataset"
    /\ left_column = "d"
    /\ "patient_id" \in metadata_df.columns
    /\ Len(merged_df.rows) >= 1
    /\ \E i \in 1..Len(MetaRows) : MetaRows[i]["d"] # MetaRows[i]["patient_id"]

\* C7: the inventory has one record per patient folder holding at least one
\* expected file and none for the others; a record has the nine flags, one of
\* them 1, and a path for exactly the types whose flag is 1
C7_InventoryIffAnyFile ==
    audio_paths_df # NoneValue =>
        /\ Len(InvRows) = Cardinality(Qualifying)
        /\ \A f \in Qualifying :
              \E k \in 1..Len(InvRows) :
                  /\ InvRows[k]["patient_id"] = FolderAt(f).name
                  /\ InvRows[k]["date_folder"] = f[1]
                  /\ \A t \in ExpectedFiles :
                        InvRows[k][HasName(t)] = 1 <=> t \in FolderAt(f).files
        /\ \A k \in 1..Len(InvRows) :
              /\ NineFlags \subseteq DOMAIN InvRows[k]
              /\ \A f \in NineFlags : InvRows[k][f] \in {0, 1}
              /\ \E f \in NineFlags : InvRows[k][f] = 1
              /\ \A t \in ExpectedFiles :
                    NormalizedName(t) \in DOMAIN InvRows[k] <=> InvRows[k][HasName(t)] = 1
        /\ merged_df # NoneValue =>
              \A i \in 1..Len(merged_df.rows) :
                  \E f \in Qualifying : merged_df.rows[i]["date_folder"] = f[1]
C7_Witness ==
    /\ pc = "done"
    /\ Len(InvRows) >= 1
    /\ Folders \ Qualifying # {}
    /\ \E k \in 1..Len(InvRows) : "vowel_o" \notin DOMAIN InvRows[k]
    /\ Len(merged_df.rows) >= 1

\* C8: the pipeline starts only after both existence checks have passed, the
\* metadata file first; a missing input halts main with its message and
\* nothing loaded, scanned, joined or written
PipelineStarted ==
    \/ pc \in {"load_metadata", "find_audio_files", "merge_datasets",
                "create_final_dataset", "report", "done", "crashed"}
    \/ metadata_df # NoneValue
    \/ audio_paths_df # NoneValue
    \/ merged_df # NoneValue
    \/ final_dataset # NoneValue
    \/ outputFile # NoneValue
C8_ChecksBeforePipeline ==
    /\ PipelineStarted => metadataExists /\ audioExists
    /\ pc = "halted" =>
          /\ ~PipelineStarted
          /\ printed = IF ~metadataExists
                       THEN {"Error: combined_data.csv not found!"}
                       ELSE {"Error: Extracted_data not found!"}
    /\ (pc \notin {"check_metadata", "check_audio"}
          /\ ~(metadataExists /\ audioExists)) => pc = "halted"
C8_Witness ==
    /\ pc = "halted"
    /\ metadataExists
    /\ ~audioExists

C10_EmptyInventoryHandled ==
    (audio_paths_df # NoneValue /\ Len(InvRows) = 0) =>
        /\ raised = "none"
        /\ pc \in {"merge_datasets", "create_final_dataset", "report", "done"}
        /\ Returned =>
              /\ final_dataset = NoneValue
              /\ outputFile = NoneValue
              /\ "Error: No data to process" \in printed
====
